---- MODULE Spec2Model ----
(***************************************************************************)
(* Model of src/src/utils/helpers/data_consistency.py: the DataConsistency *)
(* routines that reconcile batting, bowling, fantasy-team and match        *)
(* prediction records.                                                     *)
(*                                                                         *)
(* Numbers.  Python computes on floats; the model computes on exact        *)
(* rationals <<n, d>> (d > 0, lowest terms).  A numeric field of a record  *)
(* is stored as an integer count of hundredths (1004 is 10.04); a          *)
(* probability is stored as an integer count of thousandths; a score is a  *)
(* whole number of runs.  round(x, k) is modelled by what it does: the     *)
(* nearest multiple of 10^-k.  When x lies exactly half way between two    *)
(* multiples, Python decides by the binary representation error of the     *)
(* float (round(0.0005, 3) = 0.001, round(0.25, 1) = 0.2), which an exact  *)
(* model cannot see: tieMode ranges over the resolutions of such ties.     *)
(***************************************************************************)
EXTENDS Integers, Sequences, FiniteSets, TLC

VARIABLES
    kind,              \* which routine the caller's request is for
    format_type,       \* the format string passed to the routine
    tieMode,           \* how round() resolves an exact decimal tie
    batting_data,      \* dict: key -> hundredths
    malformed,         \* keys of batting_data whose value is None, not a number
    bowling_data,      \* dict: key -> hundredths
    fantasy_team,      \* dict: players / captain / vice_captain
    match_prediction,  \* dict: prediction / expected_scores
    given,             \* the argument as assembled: [arg |-> dict, none |-> None-valued keys]
    before,            \* the argument as it was when the latest call started
    calls,             \* how many times the routine was applied to the argument
    outcome            \* "none" | "returned" | "TypeError" : how the latest call ended

vars == <<kind, format_type, tieMode, batting_data, malformed, bowling_data,
          fantasy_team, match_prediction, given, before, calls, outcome>>

\* Bound: how many times a caller re-applies a routine to the same record.
MaxCalls == 2

\* Bound: the longest player list of a fantasy team.
MaxPlayers == 2

(***************************************************************************)
(* Exact rational arithmetic                                               *)
(***************************************************************************)
Abs(x) == IF x < 0 THEN -x ELSE x

RECURSIVE GCD(_, _)
GCD(a, b) == IF b = 0 THEN a ELSE GCD(b, a % b)

\* The rational n/d in lowest terms with a positive denominator (d # 0).
Q(n, d) ==
    LET g == GCD(Abs(n), Abs(d))
        s == IF d < 0 THEN -1 ELSE 1
    IN  <<(s * n) \div g, (s * d) \div g>>

QInt(n)     == <<n, 1>>
QAdd(a, b)  == Q(a[1] * b[2] + b[1] * a[2], a[2] * b[2])
QMul(a, b)  == Q(a[1] * b[1], a[2] * b[2])
QDiv(a, b)  == Q(a[1] * b[2], a[2] * b[1])
QGt(a, b)   == a[1] * b[2] > b[1] * a[2]
\* Python's max(a, b) and min(a, b): the first argument unless the second beats it.
PyMax(a, b) == IF QGt(b, a) THEN b ELSE a
PyMin(a, b) == IF QGt(a, b) THEN b ELSE a

TieModes == {"even", "up", "down"}

\* The integer nearest to n/d (d > 0); an exact tie is resolved by mode.
RoundDiv(n, d, mode) ==
    LET fl == n \div d
        r  == n % d
    IN  IF 2 * r < d THEN fl
        ELSE IF 2 * r > d THEN fl + 1
        ELSE CASE mode = "up"   -> fl + 1
               [] mode = "down" -> fl
               [] OTHER         -> IF fl % 2 = 0 THEN fl ELSE fl + 1

\* round(q, 1) of a value, stored back as hundredths.
Round1(q, mode) == 10 * RoundDiv(10 * q[1], q[2], mode)

\* round(q, 3) of a probability, stored as thousandths.
Round3(q, mode) == RoundDiv(1000 * q[1], q[2], mode)

\* The number a stored field stands for.
Num(h) == Q(h, 100)

\* dict.get(key, default)
Get(d, k, default) == IF k \in DOMAIN d THEN d[k] ELSE default

\* dict.update(u): keys of u are added or overwritten
Update(d, u) == [k \in DOMAIN d \cup DOMAIN u |-> IF k \in DOMAIN u THEN u[k] ELSE d[k]]

\* A record with the fields holding Absent dropped: the dict it stands for.
Absent == 0 - 1000000
Strip(r) == [k \in {x \in DOMAIN r : r[x] # Absent} |-> r[k]]

\* str.upper() on the format strings callers pass.
Formats == {"T20I", "t20i", "Odi", "Test"}
Upper(s) ==
    CASE s = "t20i" -> "T20I"
      [] s = "Odi"  -> "ODI"
      [] s = "Test" -> "TEST"
      [] OTHER      -> s

(***************************************************************************)
(* ensure_batting_consistency                                              *)
(***************************************************************************)
BattingKeys == {"expected_runs", "expected_balls", "expected_strike_rate",
                "expected_fours", "expected_sixes"}

\* Does the call raise TypeError?  A None operand of >, /, * or + raises:
\* balls > 0 (line 41); runs / balls (42); strike_rate > 0 (43), reached only
\* when balls <= 0; fours * 4, sixes * 6 (47); boundary_runs > runs (48).
\* A None strike rate is overwritten without being read when balls > 0.
BattingRaises(d, bad) ==
    \/ "expected_balls" \in bad
    \/ "expected_runs" \in bad
    \/ "expected_fours" \in bad
    \/ "expected_sixes" \in bad
    \/ /\ "expected_strike_rate" \in bad
       /\ Get(d, "expected_balls", 0) <= 0

\* Step 1 (lines 40-44): strike rate and balls, before the floors.
BattingStrikeRate(runs, balls, strike_rate) ==
    IF QGt(balls, QInt(0)) THEN QMul(QDiv(runs, balls), QInt(100)) ELSE strike_rate

BattingBalls(runs, balls, strike_rate) ==
    IF QGt(balls, QInt(0)) THEN balls
    ELSE IF QGt(strike_rate, QInt(0)) THEN QMul(QDiv(runs, strike_rate), QInt(100))
    ELSE balls

\* Step 2 (lines 46-52): the factor applied to fours and sixes.
ScaleFactor(runs, fours, sixes) ==
    LET boundary_runs == QAdd(QMul(fours, QInt(4)), QMul(sixes, QInt(6)))
    IN  IF QGt(boundary_runs, runs)
        THEN QDiv(runs, PyMax(QInt(1), boundary_runs))
        ELSE QInt(1)

\* Mutants of the floors: balls kept off zero by adding one; no floor at zero.
FloorBalls_AddOne(balls) == QAdd(balls, QInt(1))
FloorZero_Missing(x)     == x

\* Step 3 (lines 54-59): the floors.
FloorBalls(balls) == PyMax(QInt(1), balls)
FloorZero(x)      == PyMax(QInt(0), x)

\* The dict the call leaves behind when it returns (lines 31-70).
EnsureBatting(d, mode) ==
    LET runs0  == Num(Get(d, "expected_runs", 0))
        balls0 == Num(Get(d, "expected_balls", 0))
        sr0    == Num(Get(d, "expected_strike_rate", 0))
        fours0 == Num(Get(d, "expected_fours", 0))
        sixes0 == Num(Get(d, "expected_sixes", 0))
        sr1    == BattingStrikeRate(runs0, balls0, sr0)
        balls1 == BattingBalls(runs0, balls0, sr0)
        scale  == ScaleFactor(runs0, fours0, sixes0)
        fours1 == QMul(fours0, scale)
        sixes1 == QMul(sixes0, scale)
    IN  Update(d,
          [expected_runs        |-> Round1(FloorZero(runs0), mode),
           expected_balls       |-> Round1(FloorBalls(balls1), mode),
           expected_strike_rate |-> Round1(FloorZero(sr1), mode),
           expected_fours       |-> Round1(FloorZero(fours1), mode),
           expected_sixes       |-> Round1(FloorZero(sixes1), mode)])

(***************************************************************************)
(* ensure_bowling_consistency                                              *)
(***************************************************************************)
\* Mutant: the format compared without upper().
CapOvers_CaseSensitive(overs, fmt) ==
    IF fmt = "T20I" THEN PyMin(overs, QInt(4))
    ELSE IF fmt = "ODI" THEN PyMin(overs, QInt(10))
    ELSE overs

\* Step 2 (lines 98-102): the format's cap on overs.
CapOvers(overs, fmt) ==
    IF Upper(fmt) = "T20I" THEN PyMin(overs, QInt(4))
    ELSE IF Upper(fmt) = "ODI" THEN PyMin(overs, QInt(10))
    ELSE overs

\* Step 1 (lines 92-96): runs conceded and economy from the overs read.
BowlingRunsConceded(overs, economy, runs_conceded) ==
    IF QGt(overs, QInt(0)) /\ QGt(economy, QInt(0))
    THEN QMul(economy, overs)
    ELSE runs_conceded

BowlingEconomy(overs, economy, runs_conceded) ==
    IF QGt(overs, QInt(0)) /\ QGt(economy, QInt(0)) THEN economy
    ELSE IF QGt(runs_conceded, QInt(0)) /\ QGt(overs, QInt(0))
    THEN QDiv(runs_conceded, overs)
    ELSE economy

\* The dict the call leaves behind (lines 84-118).
EnsureBowling(d, fmt, mode) ==
    LET overs0 == Num(Get(d, "expected_overs", 0))
        eco0   == Num(Get(d, "expected_economy", 0))
        wkts0  == Num(Get(d, "expected_wickets", 0))
        rc0    == Num(Get(d, "expected_runs_conceded", 0))
        rc1    == BowlingRunsConceded(overs0, eco0, rc0)
        eco1   == BowlingEconomy(overs0, eco0, rc0)
        overs1 == CapOvers(overs0, fmt)
    IN  Update(d,
          [expected_overs         |-> Round1(FloorZero(overs1), mode),
           expected_economy       |-> Round1(FloorZero(eco1), mode),
           expected_wickets       |-> Round1(FloorZero(wkts0), mode),
           expected_runs_conceded |-> Round1(FloorZero(rc1), mode)])

(***************************************************************************)
(* ensure_fantasy_team_consistency                                         *)
(***************************************************************************)
EmptyDict == [k \in {} |-> 0]

\* any(p.get('name', '') == who for p in players)  (lines 195-196)
InTeam(players, who) ==
    \E i \in 1..Len(players) : Get(players[i], "name", "") = who

\* Mutant: the repair skipped unless the roster has 11 players.
RepairCaptain_OnlyEleven(ft) ==
    LET players == Get(ft, "players", <<>>)
        captain == Get(ft, "captain", "")
    IN  IF ~InTeam(players, captain) /\ Len(players) = 11
        THEN Update(ft, [captain |-> Get(players[1], "name", "")])
        ELSE ft

\* Lines 198-200: the captain after the repair.
RepairCaptain(ft) ==
    LET players == Get(ft, "players", <<>>)
        captain == Get(ft, "captain", "")
    IN  IF ~InTeam(players, captain) /\ Len(players) > 0
        THEN Update(ft, [captain |-> Get(players[1], "name", "")])
        ELSE ft

\* Lines 202-204: the vice-captain after the repair.  Membership was decided
\* on line 196, before either repair; neither repair changes the players.
RepairViceCaptain(ft) ==
    LET players      == Get(ft, "players", <<>>)
        vice_captain == Get(ft, "vice_captain", "")
    IN  IF ~InTeam(players, vice_captain) /\ Len(players) > 1
        THEN Update(ft, [vice_captain |-> Get(players[2], "name", "")])
        ELSE ft

\* Lines 208-216: one player's performance dict, reconciled in place.
ReconcilePerformance(perf, fmt, mode) ==
    [k \in DOMAIN perf |->
        IF k = "batting" THEN EnsureBatting(perf[k], mode)
        ELSE IF k = "bowling" THEN EnsureBowling(perf[k], fmt, mode)
        ELSE perf[k]]

\* A player without a 'performance' key gets a throw-away {} (line 208).
ReconcilePlayer(player, fmt, mode) ==
    IF "performance" \in DOMAIN player
    THEN Update(player,
                [performance |-> ReconcilePerformance(player["performance"], fmt, mode)])
    ELSE player

\* The dict the call leaves behind (lines 186-218).
EnsureFantasyTeam(ft, fmt, mode) ==
    LET ft2 == RepairViceCaptain(RepairCaptain(ft))
    IN  IF "players" \in DOMAIN ft
        THEN Update(ft2,
                    [players |-> [i \in 1..Len(ft["players"]) |->
                                     ReconcilePlayer(ft["players"][i], fmt, mode)]])
        ELSE ft2

(***************************************************************************)
(* ensure_match_prediction_consistency                                     *)
(***************************************************************************)
\* Lines 242-248: one normalised probability; p and other are thousandths.
Normalize(p, other) ==
    IF p + other > 0 THEN QDiv(Q(p, 1000), Q(p + other, 1000)) ELSE Q(1, 2)

\* Lines 234-255: the 'prediction' dict after the probability step.
NormalizePrediction(pred, mode) ==
    LET team_probs == Get(pred, "team_probabilities", EmptyDict)
        teams      == DOMAIN team_probs
    IN  IF Cardinality(teams) = 2
        THEN LET team1 == CHOOSE t \in teams : TRUE
                 team2 == CHOOSE t \in teams : t # team1
                 prob1 == Normalize(team_probs[team1], team_probs[team2])
                 prob2 == Normalize(team_probs[team2], team_probs[team1])
             IN  Update(pred,
                   [team_probabilities |->
                        [t \in teams |-> IF t = team1 THEN Round3(prob1, mode)
                                                     ELSE Round3(prob2, mode)],
                    win_probability |-> Round3(PyMax(prob1, prob2), mode)])
        ELSE pred

\* max and min of two whole numbers.
IntMax(a, b) == IF b > a THEN b ELSE a
IntMin(a, b) == IF b < a THEN b ELSE a

\* Mutant: max and min exchanged in both bands.
ClampScore_Swapped(score, fmt) ==
    IF Upper(fmt) = "T20I" THEN IntMin(120, IntMax(score, 220))
    ELSE IF Upper(fmt) = "ODI" THEN IntMin(200, IntMax(score, 350))
    ELSE score

\* Lines 260-266: one expected score under the format's band.
ClampScore(score, fmt) ==
    IF Upper(fmt) = "T20I" THEN IntMax(120, IntMin(score, 220))
    ELSE IF Upper(fmt) = "ODI" THEN IntMax(200, IntMin(score, 350))
    ELSE score

\* The dict the call leaves behind (lines 232-268).
EnsureMatchPrediction(mp, fmt, mode) ==
    [k \in DOMAIN mp |->
        IF k = "prediction" THEN NormalizePrediction(mp[k], mode)
        ELSE IF k = "expected_scores"
        THEN [t \in DOMAIN mp[k] |-> ClampScore(mp[k][t], fmt)]
        ELSE mp[k]]

(***************************************************************************)
(* The records callers hand in                                             *)
(***************************************************************************)
Kinds == {"batting", "bowling", "team", "match"}

\* Field values in hundredths; Absent stands for a missing key.
RunsVals  == {Absent, -100, 0, 100, 1000, 1004}
BallsVals == {Absent, -100, 0, 50, 100, 200, 1000}
RateVals  == {Absent, 0, 10000, 50200}
FoursVals == {Absent, -100, 0, 100, 400}
SixesVals == {Absent, 0, 100, 200}

BattingDicts ==
    {Strip(r) : r \in [expected_runs : RunsVals, expected_balls : BallsVals,
                       expected_strike_rate : RateVals, expected_fours : FoursVals,
                       expected_sixes : SixesVals]}

\* At most one present field holds None; in the dict its place is kept by 0.
MalformedSets(d) == {{}} \cup {{k} : k \in {x \in DOMAIN d : d[x] = 0}}

OversVals   == {Absent, -100, 0, 250, 400, 600, 1200}
EconomyVals == {Absent, -100, 0, 754, 800}
WicketsVals == {Absent, -100, 0, 150}
ConcededVals == {Absent, -500, 0, 3000}

BowlingDicts ==
    {Strip(r) : r \in [expected_overs : OversVals, expected_economy : EconomyVals,
                       expected_wickets : WicketsVals,
                       expected_runs_conceded : ConcededVals]}

\* Fantasy teams.  NoKey stands for a missing 'captain' or 'vice_captain' key.
NoKey == "<missing>"
PlayerNames  == {"A", "B"}
CaptainNames == {"A", "B", "Z", NoKey}
TeamFormats  == {"T20I", "Odi"}

BattingOnly ==
    [batting |-> [expected_runs |-> 1004, expected_fours |-> 400,
                  expected_sixes |-> 100]]
BowlingOnly ==
    [bowling |-> [expected_overs |-> 1200, expected_economy |-> 754]]
BattingAndBowling ==
    [batting |-> [expected_runs |-> -100, expected_balls |-> -100,
                  expected_strike_rate |-> 10000, expected_fours |-> -100,
                  expected_sixes |-> 200],
     bowling |-> [expected_overs |-> -100, expected_economy |-> -100,
                  expected_wickets |-> -100, expected_runs_conceded |-> -500]]

\* Players: named ones with a performance, one without a 'performance' key,
\* one without a 'name' key.
Players ==
    {[name |-> n, performance |-> p] :
        n \in PlayerNames, p \in {BattingOnly, BattingAndBowling}}
    \cup {[name |-> "A"], [performance |-> BowlingOnly]}

PlayerLists == UNION {[1..n -> Players] : n \in 0..MaxPlayers}

Team(players, captain, vice_captain) ==
    [k \in {"players"} \cup (IF captain = NoKey THEN {} ELSE {"captain"})
                       \cup (IF vice_captain = NoKey THEN {} ELSE {"vice_captain"}) |->
        CASE k = "players" -> players
          [] k = "captain" -> captain
          [] OTHER         -> vice_captain]

Teams == {Team(ps, c, v) : ps \in PlayerLists, c \in CaptainNames, v \in CaptainNames}
          \cup {[captain |-> "Z"]}

\* Match predictions: probabilities in thousandths, scores in runs.
TeamNames == {"A", "B", "C"}
ProbVals  == {Absent, -250, 0, 1, 1999}
ScoreVals == {Absent, 50, 150, 210, 400}

ProbDicts  == {Strip(r) : r \in [TeamNames -> ProbVals]}
ScoreDicts == {Strip(r) : r \in [{"A", "B"} -> ScoreVals]}

Matches ==
    {[prediction |-> [team_probabilities |-> tp], expected_scores |-> es] :
        tp \in ProbDicts, es \in ScoreDicts}
    \cup {[prediction |-> [team_probabilities |-> tp]] : tp \in ProbDicts}
    \cup {[expected_scores |-> es] : es \in ScoreDicts}
    \cup {[prediction |-> EmptyDict, expected_scores |-> es] : es \in ScoreDicts}

(***************************************************************************)
(* State machine: a caller assembles one record and applies its routine    *)
(***************************************************************************)
Init ==
    /\ kind \in Kinds
    /\ tieMode \in TieModes
    /\ calls = 0
    /\ outcome = "none"
    /\ batting_data \in (IF kind = "batting" THEN BattingDicts ELSE {EmptyDict})
    /\ malformed \in (IF kind = "batting" THEN MalformedSets(batting_data) ELSE {{}})
    /\ bowling_data \in (IF kind = "bowling" THEN BowlingDicts ELSE {EmptyDict})
    /\ fantasy_team \in (IF kind = "team" THEN Teams ELSE {EmptyDict})
    /\ match_prediction \in (IF kind = "match" THEN Matches ELSE {EmptyDict})
    /\ format_type \in (IF kind = "batting" THEN {"T20I"}
                        ELSE IF kind = "team" THEN TeamFormats ELSE Formats)
    /\ before = (CASE kind = "batting" -> batting_data
                   [] kind = "bowling" -> bowling_data
                   [] kind = "team"    -> fantasy_team
                   [] OTHER            -> match_prediction)
    /\ given = [arg |-> before, none |-> malformed]

\* ensure_batting_consistency(batting_data)
ensure_batting_consistency ==
    /\ kind = "batting"
    /\ calls < MaxCalls
    /\ calls' = calls + 1
    /\ before' = batting_data
    /\ IF BattingRaises(batting_data, malformed)
       THEN /\ outcome' = "TypeError"
            /\ UNCHANGED <<batting_data, malformed>>
       ELSE /\ outcome' = "returned"
            /\ batting_data' = EnsureBatting(batting_data, tieMode)
            /\ malformed' = {}
    /\ UNCHANGED <<kind, format_type, tieMode, bowling_data, fantasy_team,
                   match_prediction, given>>

\* ensure_bowling_consistency(bowling_data, format_type)
ensure_bowling_consistency ==
    /\ kind = "bowling"
    /\ calls < MaxCalls
    /\ calls' = calls + 1
    /\ before' = bowling_data
    /\ outcome' = "returned"
    /\ bowling_data' = EnsureBowling(bowling_data, format_type, tieMode)
    /\ UNCHANGED <<kind, format_type, tieMode, batting_data, malformed,
                   fantasy_team, match_prediction, given>>

\* ensure_fantasy_team_consistency(fantasy_team, format_type)
ensure_fantasy_team_consistency ==
    /\ kind = "team"
    /\ calls < MaxCalls
    /\ calls' = calls + 1
    /\ before' = fantasy_team
    /\ outcome' = "returned"
    /\ fantasy_team' = EnsureFantasyTeam(fantasy_team, format_type, tieMode)
    /\ UNCHANGED <<kind, format_type, tieMode, batting_data, malformed,
                   bowling_data, match_prediction, given>>

\* ensure_match_prediction_consistency(match_prediction, format_type)
ensure_match_prediction_consistency ==
    /\ kind = "match"
    /\ calls < MaxCalls
    /\ calls' = calls + 1
    /\ before' = match_prediction
    /\ outcome' = "returned"
    /\ match_prediction' = EnsureMatchPrediction(match_prediction, format_type, tieMode)
    /\ UNCHANGED <<kind, format_type, tieMode, batting_data, malformed,
                   bowling_data, fantasy_team, given>>

Next ==
    \/ ensure_batting_consistency
    \/ ensure_bowling_consistency
    \/ ensure_fantasy_team_consistency
    \/ ensure_match_prediction_consistency

Spec == Init /\ [][Next]_vars

(***************************************************************************)
(* Properties                                                              *)
(***************************************************************************)
Returned(k) == kind = k /\ calls >= 1 /\ outcome = "returned"

\* sr is runs/balls*100 for some runs and balls that round to the stored ones
\* (all in hundredths; the stored fields are one-decimal values, balls >= 1).
RateWithinRounding(sr, runs, balls) ==
    /\ (sr + 5) * (balls + 5) >= 10000 * (runs - 5)
    /\ (sr - 5) * (balls - 5) <= 10000 * (runs + 5)

\* conceded is economy*overs for some economy and overs that round to the
\* stored ones (hundredths).
ConcededWithinRounding(conceded, economy, overs) ==
    /\ 100 * (conceded + 5) >= (economy - 5) * (overs - 5)
    /\ 100 * (conceded - 5) <= (economy + 5) * (overs + 5)

\* C1: a returned batting record with expected_balls > 0 has
\* expected_strike_rate = expected_runs / expected_balls * 100, up to the
\* one-decimal rounding of the fields.
C1_StrikeRateMatchesRunsAndBalls ==
    (Returned("batting") /\ batting_data["expected_balls"] > 0)
        => RateWithinRounding(batting_data["expected_strike_rate"],
                              batting_data["expected_runs"],
                              batting_data["expected_balls"])

\* C2: a returned batting record has
\* expected_fours*4 + expected_sixes*6 <= expected_runs.
C2_BoundaryRunsWithinRuns ==
    Returned("batting")
        => 4 * batting_data["expected_fours"] + 6 * batting_data["expected_sixes"]
              <= batting_data["expected_runs"]

\* The two-entry team_probabilities the latest match call started from.
ProbsBefore == Get(Get(before, "prediction", EmptyDict), "team_probabilities", EmptyDict)
ProbsAfter  == match_prediction["prediction"]["team_probabilities"]

\* C3: after the Match Aggregator returns for a two-entry team_probabilities,
\* the two stored probabilities sum to 1, both are 0.5 when the inputs sum to
\* at most 0, and win_probability is the larger stored probability.
C3_ProbabilitiesSumToOne ==
    (Returned("match") /\ Cardinality(DOMAIN ProbsBefore) = 2)
        => LET t1 == CHOOSE t \in DOMAIN ProbsBefore : TRUE
               t2 == CHOOSE t \in DOMAIN ProbsBefore : t # t1
           IN  /\ DOMAIN ProbsAfter = {t1, t2}
               /\ ProbsAfter[t1] + ProbsAfter[t2] = 1000
               /\ (ProbsBefore[t1] + ProbsBefore[t2] <= 0
                     => ProbsAfter[t1] = 500 /\ ProbsAfter[t2] = 500)
               /\ match_prediction["prediction"]["win_probability"]
                     = IntMax(ProbsAfter[t1], ProbsAfter[t2])

\* C4: a returned bowling record with positive expected_overs and
\* expected_economy has expected_runs_conceded = expected_economy *
\* expected_overs, up to the one-decimal rounding of the fields.
C4_RunsConcededIsEconomyTimesOvers ==
    (/\ Returned("bowling")
     /\ bowling_data["expected_overs"] > 0
     /\ bowling_data["expected_economy"] > 0)
        => ConcededWithinRounding(bowling_data["expected_runs_conceded"],
                                  bowling_data["expected_economy"],
                                  bowling_data["expected_overs"])

PlayersBefore == Get(before, "players", <<>>)
PlayersAfter  == Get(fantasy_team, "players", <<>>)
NameOf(player) == Get(player, "name", "")

\* C5: after the Team Aggregator returns for a team of at least one player,
\* captain names a player of the team: the captain it had if that one was a
\* player, else the first player; with at least two players the same holds of
\* vice_captain and the second player.  No roster size blocks the repair.
C5_CaptaincyRepaired ==
    Returned("team") =>
        /\ Len(PlayersBefore) >= 1 =>
              /\ InTeam(PlayersAfter, Get(fantasy_team, "captain", ""))
              /\ Get(fantasy_team, "captain", "")
                    = IF InTeam(PlayersBefore, Get(before, "captain", ""))
                      THEN Get(before, "captain", "")
                      ELSE NameOf(PlayersBefore[1])
        /\ Len(PlayersBefore) >= 2 =>
              /\ InTeam(PlayersAfter, Get(fantasy_team, "vice_captain", ""))
              /\ Get(fantasy_team, "vice_captain", "")
                    = IF InTeam(PlayersBefore, Get(before, "vice_captain", ""))
                      THEN Get(before, "vice_captain", "")
                      ELSE NameOf(PlayersBefore[2])

\* Witness of C5: a two-player roster whose captain and vice-captain named
\* nobody in it now has the first player as captain and the second as
\* vice-captain.
C5_Witness ==
    /\ Returned("team")
    /\ calls = 1
    /\ Len(PlayersBefore) = 2
    /\ Get(before, "captain", "") = "Z"
    /\ Get(before, "vice_captain", "") = "Z"
    /\ Get(fantasy_team, "captain", "") = "A"
    /\ Get(fantasy_team, "vice_captain", "") = "B"

\* C6: the Batting Reconciler never ends in an error, whether a field is
\* absent or holds a malformed value.
C6_BattingNeverRaises ==
    kind = "batting" => outcome # "TypeError"

BattingNonNegative(d) ==
    /\ d["expected_runs"] >= 0
    /\ d["expected_strike_rate"] >= 0
    /\ d["expected_fours"] >= 0
    /\ d["expected_sixes"] >= 0
    /\ d["expected_balls"] >= 100

BowlingNonNegative(d) ==
    /\ d["expected_overs"] >= 0
    /\ d["expected_economy"] >= 0
    /\ d["expected_wickets"] >= 0
    /\ d["expected_runs_conceded"] >= 0

PerformanceOf(player) == Get(player, "performance", EmptyDict)

\* C7: no field of a returned batting or bowling record is negative and
\* expected_balls >= 1, for a direct call and for every member of a team the
\* Team Aggregator returned.
C7_NoNegativeField ==
    /\ Returned("batting") => BattingNonNegative(batting_data)
    /\ Returned("bowling") => BowlingNonNegative(bowling_data)
    /\ Returned("team") =>
          \A i \in 1..Len(PlayersAfter) :
              LET perf == PerformanceOf(PlayersAfter[i])
              IN  /\ "batting" \in DOMAIN perf => BattingNonNegative(perf["batting"])
                  /\ "bowling" \in DOMAIN perf => BowlingNonNegative(perf["bowling"])

\* Witness of C7: a team member whose batting and bowling records held
\* negative values has been reconciled.
C7_Witness ==
    /\ Returned("team")
    /\ \E i \in 1..Len(PlayersBefore) :
          LET perf == PerformanceOf(PlayersBefore[i])
          IN  /\ "batting" \in DOMAIN perf
              /\ "bowling" \in DOMAIN perf
              /\ perf["batting"]["expected_runs"] < 0
              /\ perf["bowling"]["expected_overs"] < 0
              /\ PerformanceOf(PlayersAfter[i])["batting"]["expected_balls"] = 100

\* An already-consistent batting record: every field a number, strike rate =
\* runs/balls*100, boundary runs within runs, nothing negative, balls >= 1.
Consistent(g) ==
    LET d     == g.arg
        runs  == Get(d, "expected_runs", 0)
        balls == Get(d, "expected_balls", 0)
        sr    == Get(d, "expected_strike_rate", 0)
        fours == Get(d, "expected_fours", 0)
        sixes == Get(d, "expected_sixes", 0)
    IN  /\ g.none = {}
        /\ balls >= 100
        /\ runs >= 0 /\ sr >= 0 /\ fours >= 0 /\ sixes >= 0
        /\ sr * balls = 10000 * runs
        /\ 4 * fours + 6 * sixes <= runs

\* Every field of the record is a multiple of 0.1.
OneDecimal(g) == \A k \in DOMAIN g.arg : g.arg[k] % 10 = 0

\* C8 as stated: on an already-consistent record the second application of
\* the Batting Reconciler changes none of the five fields.
C8_IdempotentOnConsistent ==
    (Returned("batting") /\ calls >= 2 /\ Consistent(given))
        => batting_data = before

\* C8 amended: the same, for consistent records whose fields are already
\* one-decimal values.
C8_IdempotentOnRoundedConsistent ==
    (Returned("batting") /\ calls >= 2 /\ Consistent(given) /\ OneDecimal(given))
        => batting_data = before

\* Witness of C8: a consistent one-decimal record with runs and boundaries
\* has been reconciled twice.
C8_Witness ==
    /\ Returned("batting")
    /\ calls = 2
    /\ Consistent(given)
    /\ OneDecimal(given)
    /\ Get(given.arg, "expected_runs", 0) > 0
    /\ Get(given.arg, "expected_fours", 0) > 0
    /\ Get(given.arg, "expected_sixes", 0) > 0

\* C9: returned expected_overs <= 4 under T20I and <= 10 under ODI, the format
\* matched case-insensitively; under any other format the returned overs are
\* the input overs floored at 0 and rounded.
C9_OversCappedByFormat ==
    Returned("bowling") =>
        /\ Upper(format_type) = "T20I" => bowling_data["expected_overs"] <= 400
        /\ Upper(format_type) = "ODI" => bowling_data["expected_overs"] <= 1000
        /\ Upper(format_type) \notin {"T20I", "ODI"} =>
              bowling_data["expected_overs"]
                 = Round1(Num(IntMax(0, Get(before, "expected_overs", 0))), tieMode)

\* Witness of C9: 6 overs under the format "t20i" came back as 4.
C9_Witness ==
    /\ Returned("bowling")
    /\ calls = 1
    /\ format_type = "t20i"
    /\ Get(before, "expected_overs", 0) = 600
    /\ bowling_data["expected_overs"] = 400

ScoresBefore == Get(before, "expected_scores", EmptyDict)
ScoresAfter  == Get(match_prediction, "expected_scores", EmptyDict)

\* v is the value of lo..hi nearest to score.
NearestInBand(v, score, lo, hi) ==
    /\ lo <= v /\ v <= hi
    /\ \A w \in lo..hi : Abs(v - score) <= Abs(w - score)

\* C10: after the Match Aggregator returns, every expected score is the
\* nearest value of [120, 220] under T20I and of [200, 350] under ODI, and is
\* unchanged under any other format, whatever team_probabilities holds.
C10_ScoresClampedToBand ==
    Returned("match") =>
        /\ DOMAIN ScoresAfter = DOMAIN ScoresBefore
        /\ \A t \in DOMAIN ScoresBefore :
              /\ Upper(format_type) = "T20I" =>
                    NearestInBand(ScoresAfter[t], ScoresBefore[t], 120, 220)
              /\ Upper(format_type) = "ODI" =>
                    NearestInBand(ScoresAfter[t], ScoresBefore[t], 200, 350)
              /\ Upper(format_type) \notin {"T20I", "ODI"} =>
                    ScoresAfter[t] = ScoresBefore[t]

\* Witness of C10: with three entries in team_probabilities, a score of 400
\* came back as 220 under T20I.
C10_Witness ==
    /\ Returned("match")
    /\ calls = 1
    /\ Upper(format_type) = "T20I"
    /\ Cardinality(DOMAIN ProbsBefore) = 3
    /\ "A" \in DOMAIN ScoresBefore
    /\ ScoresBefore["A"] = 400
    /\ ScoresAfter["A"] = 220

====
